---- MODULE Spec2Model ----
(***************************************************************************)
(* Model of jenskipper's pipeline codec (jenskipper/jobs.py), of the push  *)
(* command (jenskipper/cli/push.py), of the build command and of           *)
(* print_build_result (jenskipper/cli/build.py), and of deep_merge         *)
(* (jenskipper/utils.py).                                                  *)
(*                                                                         *)
(* XML documents of the codec are element trees [tag, text, children];     *)
(* job configurations of the push command are records of the parts the     *)
(* command reads: job type, payload, disabled flag, embedded hash.         *)
(***************************************************************************)
EXTENDS Integers, Sequences, FiniteSets, TLC

VARIABLES
    \* ---- pipeline codec (jobs.py) ----
    ppc,          \* position of the codec run: "idle", "start", "merged", "extracted"
    pconf,        \* the document given to merge_pipeline_conf / extract_pipeline_conf
    pparents,     \* the parents argument of merge_pipeline_conf
    plink,        \* the link_type argument of merge_pipeline_conf
    pmerged,      \* what merge_pipeline_conf returned or raised
    pextracted,   \* what extract_pipeline_conf returned or raised
    \* ---- push command (cli/push.py) ----
    pc,           \* position of the push run
    jobs_names,   \* the requested jobs, in the order of the command line
    allow_overwrite,        \* --allow-overwrite
    confirm_replace,        \* --confirm-replace
    disable_jobs_from_gui,  \* conf server.disable_jobs_from_gui
    remote,       \* the server: job name -> document or NoJob
    check_idx,    \* _check_for_gui_modifications: index of the job being checked
    gui_was_modified,       \* _check_for_gui_modifications: the flag of the same name
    remaining_jobs,         \* push: the list of the same name
    batch,        \* _push_jobs: the list the progress bar iterates over
    batch_idx,    \* _push_jobs: index in batch of the job being pushed
    batch_remaining,        \* _push_jobs: its local remaining_jobs
    final_conf,   \* _push_jobs: the document about to be pushed
    mismatch_info,          \* push: the tuple of the same name, or NoMismatch
    pushed_jobs,  \* push: what "Pushed jobs:" printed (a set), once reported
    not_pushed_jobs,        \* push: what "Jobs not pushed:" printed, once reported
    force,        \* --force
    forbid_push,  \* conf server.forbid_push
    trigger_builds,         \* --build
    built,        \* the jobs_names given to build.do_build, <<>> before
    \* ---- observations of the run (history) ----
    observed,     \* what the drift check read for each checked position
    reported_drift,         \* the jobs the drift check printed as modified
    last_call,    \* the last mutating remote call of the run and its outcome
    pushed_pos,   \* the positions of jobs_names whose push_job_config succeeded
    pushed_twice, \* a position of jobs_names had a second successful push
    declined,     \* the replacement prompt was answered no
    edits,        \* number of out-of-band edits so far
    job_steps,    \* _push_jobs: what was done so far for the job it is at
    pushed_steps, \* job_steps at the last push_job_config call, and that call
    last_fetch,   \* the last get_job_config of _push_jobs: position and answer
    \* ---- build command (cli/build.py) ----
    bpc,          \* position of the build run
    build_jobs,   \* build: jobs_names, in the order of the command line
    block,        \* --block
    trig_idx,     \* trigger_builds: index of the job being triggered
    queue_urls,   \* trigger_builds, _get_builds_urls: the dict of the same name
    ret_builds,   \* _get_builds_urls: ret, the builds_urls of wait_for_builds
    builds_urls,  \* _poll_builds: its copy of builds_urls
    results,      \* _poll_builds: ret, the results of build
    todo,         \* the items of the current for loop still to visit
    unknown,      \* the jobs printed with "unknown status"
    presented,    \* the jobs whose result build printed, in the order printed
    exit_code,    \* the argument of sys.exit
    qstate,       \* Jenkins: the queue item of each job
    executable,   \* Jenkins: the build location of the queue item, or NoUrl
    build_result, \* Jenkins: the result of that build, or Null
    recorded,     \* how many times _poll_builds assigned ret[job_name]
    not_found,    \* the jobs whose queue item was answered with a 404
    failed,       \* the remote call answered with another error, or NoFailure
    \* ---- print_build_result (cli/build.py) ----
    prpc,         \* position of the call: "idle", "start", "printed"
    pr_build,     \* Jenkins: the build at build_url, with its result and runs
    pr_result,    \* the result argument, Null for None
    pr_runs_urls, \* the runs_urls argument
    only_log_failures,      \* the argument of the same name
    printed,      \* the lines printed, in order
    \* ---- deep_merge (utils.py) ----
    mpc,          \* position of the call: "idle", "start", "merged"
    dct_a,        \* the argument of the same name, as it was at the call
    dct_b,        \* the argument of the same name, as it was at the call
    inplace,      \* the argument of the same name
    merged,       \* what deep_merge returned or raised
    a_after,      \* the dict given as dct_a, after the call
    b_after       \* the dict given as dct_b, after the call

pvars == <<ppc, pconf, pparents, plink, pmerged, pextracted>>
runvars == <<pc, jobs_names, allow_overwrite, confirm_replace,
             disable_jobs_from_gui, remote, check_idx, gui_was_modified,
             remaining_jobs, batch, batch_idx, batch_remaining, final_conf,
             mismatch_info, pushed_jobs, not_pushed_jobs>>
histvars == <<observed, reported_drift, last_call, pushed_pos, pushed_twice,
              declined, edits>>
flagvars == <<force, forbid_push, trigger_builds>>
stepvars == <<job_steps, pushed_steps, last_fetch>>
pushext == <<flagvars, built, stepvars>>
bvars == <<bpc, build_jobs, block, trig_idx, queue_urls, ret_builds,
           builds_urls, results, todo, unknown, presented, exit_code, qstate,
           executable, build_result, recorded, not_found, failed>>
prvars == <<prpc, pr_build, pr_result, pr_runs_urls, only_log_failures,
            printed>>
mvars == <<mpc, dct_a, dct_b, inplace, merged, a_after, b_after>>
othervars == <<bvars, prvars, mvars>>
vars == <<pvars, runvars, histvars, pushext, othervars>>

(***************************************************************************)
(* Bounds                                                                  *)
(***************************************************************************)
MaxParents == 2      \* longest parents list given to merge_pipeline_conf
MaxJobs == 3         \* longest jobs_names list of a push run
MaxEdits == 1        \* out-of-band edits during one push run
MaxBuildJobs == 2    \* longest jobs_names list of a build run
MaxRuns == 2         \* most sub-runs of a build
MaxDepth == 2        \* deepest nesting of the dicts given to deep_merge

(***************************************************************************)
(* Sequence helpers                                                        *)
(***************************************************************************)
Range(s) == {s[i] : i \in 1..Len(s)}

SeqsUpTo(S, n) == UNION {[1..k -> S] : k \in 0..n}

RECURSIVE Flatten(_)
Flatten(ss) == IF ss = <<>> THEN <<>> ELSE Head(ss) \o Flatten(Tail(ss))

(***************************************************************************)
(* Python str methods used by jobs.py                                      *)
(***************************************************************************)
Whitespace == {" "}

\* sep.join(parts)
RECURSIVE Join(_, _)
Join(sep, parts) ==
    IF parts = <<>> THEN <<>>
    ELSE IF Len(parts) = 1 THEN parts[1]
    ELSE parts[1] \o sep \o Join(sep, Tail(parts))

\* s.split(c) for a one-character separator: always at least one piece
RECURSIVE SplitFrom(_, _, _)
SplitFrom(s, c, cur) ==
    IF s = <<>> THEN <<cur>>
    ELSE IF Head(s) = c THEN <<cur>> \o SplitFrom(Tail(s), c, <<>>)
    ELSE SplitFrom(Tail(s), c, Append(cur, Head(s)))

Split(s, c) == SplitFrom(s, c, <<>>)

RECURSIVE LStrip(_)
LStrip(s) == IF s # <<>> /\ Head(s) \in Whitespace THEN LStrip(Tail(s)) ELSE s

RECURSIVE RStrip(_)
RStrip(s) ==
    IF s # <<>> /\ s[Len(s)] \in Whitespace
    THEN RStrip(SubSeq(s, 1, Len(s) - 1)) ELSE s

\* s.strip()
Strip(s) == RStrip(LStrip(s))

(***************************************************************************)
(* xml.etree.ElementTree                                                   *)
(***************************************************************************)
NoText == <<"<None>">>     \* Element.text is None

Elt(tag, text, children) == [tag |-> tag, text |-> text, children |-> children]

\* jobs.py _create_elt(tag, text=None)
_create_elt(tag, text) == Elt(tag, text, <<>>)

\* Paths (sequences of child indices) of the descendants of e with the given
\* tag, in document order: ElementTree's ".//tag"
RECURSIVE PathsIn(_, _)
PathsIn(e, tag) ==
    Flatten([i \in 1..Len(e.children) |->
        (IF e.children[i].tag = tag THEN << <<i>> >> ELSE <<>>)
        \o LET sub == PathsIn(e.children[i], tag)
           IN [k \in 1..Len(sub) |-> <<i>> \o sub[k]]])

RECURSIVE GetAt(_, _)
GetAt(e, path) ==
    IF path = <<>> THEN e ELSE GetAt(e.children[Head(path)], Tail(path))

\* parent.remove(child) for the child at path
RECURSIVE RemoveAt(_, _)
RemoveAt(e, path) ==
    LET i == Head(path) IN
    IF Len(path) = 1
    THEN [e EXCEPT !.children =
            SubSeq(e.children, 1, i - 1) \o SubSeq(e.children, i + 1, Len(e.children))]
    ELSE [e EXCEPT !.children[i] = RemoveAt(e.children[i], Tail(path))]

\* elt.append(child) for the element at path
RECURSIVE AppendAt(_, _, _)
AppendAt(e, path, child) ==
    IF path = <<>> THEN [e EXCEPT !.children = Append(e.children, child)]
    ELSE [e EXCEPT !.children[Head(path)] =
            AppendAt(e.children[Head(path)], Tail(path), child)]

\* elt.findtext("./tag"): the text of the first child with that tag, "" when
\* the child has no text, None when there is no such child
FindText(e, tag) ==
    LET hits == {i \in 1..Len(e.children) : e.children[i].tag = tag} IN
    IF hits = {} THEN NoText
    ELSE LET first == e.children[CHOOSE i \in hits : \A k \in hits : i <= k]
         IN IF first.text = NoText THEN <<>> ELSE first.text

\* ElementTree.tostring followed by ElementTree.fromstring of the result: an
\* element with empty text is written <tag /> and read back with text None
RECURSIVE _format_xml_tree(_)
_format_xml_tree(e) ==
    Elt(e.tag,
        IF e.text = <<>> THEN NoText ELSE e.text,
        [i \in 1..Len(e.children) |-> _format_xml_tree(e.children[i])])

(***************************************************************************)
(* Strings: a string is a sequence of atoms.  "," and " " are atoms of     *)
(* their own; any other atom stands for a run of other characters.         *)
(***************************************************************************)
Str(s) == <<s>>

(***************************************************************************)
(* jobs.py: the pipeline codec                                             *)
(***************************************************************************)
LINK_ELTS ==
    Str("SUCCESS") :>
        << <<"ordinal", Str("0")>>, <<"color", Str("BLUE")>>,
           <<"completeBuild", Str("true")>> >>
    @@ Str("UNSTABLE") :>
        << <<"ordinal", Str("1")>>, <<"color", Str("YELLOW")>>,
           <<"completeBuild", Str("true")>> >>
    @@ Str("FAILURE") :>
        << <<"ordinal", Str("2")>>, <<"color", Str("RED")>>,
           <<"completeBuild", Str("true")>> >>

RBT == "jenkins.triggers.ReverseBuildTrigger"

Raised(exc) == [ok |-> FALSE, error |-> exc]

\* The threshold element of merge_pipeline_conf: its name, then one child per
\* entry of LINK_ELTS[link_type]
ThresholdElt(link_type) ==
    Elt("threshold", NoText,
        <<_create_elt("name", link_type)>>
        \o [i \in 1..Len(LINK_ELTS[link_type]) |->
              _create_elt(LINK_ELTS[link_type][i][1], LINK_ELTS[link_type][i][2])])

\* A buggy lookup: LINK_ELTS.get(link_type, ()) instead of LINK_ELTS[link_type]
merge_pipeline_conf_lenient(conf, parents, link_type) ==
    LET elts == IF link_type \in DOMAIN LINK_ELTS THEN LINK_ELTS[link_type] ELSE <<>>
        threshold == Elt("threshold", NoText,
                         <<_create_elt("name", link_type)>>
                         \o [i \in 1..Len(elts) |-> _create_elt(elts[i][1], elts[i][2])])
        trigger == Elt(RBT, NoText,
                       <<_create_elt("spec", NoText),
                         _create_elt("upstreamProjects", Join(<<",", " ">>, parents)),
                         threshold>>)
        found == PathsIn(conf, "triggers")
    IN  IF found = <<>> THEN Raised("AttributeError")
        ELSE [ok |-> TRUE,
              conf |-> _format_xml_tree(AppendAt(conf, found[1], trigger))]

merge_pipeline_conf(conf, parents, link_type) ==
    LET tree == conf
        upstream_projects ==
            _create_elt("upstreamProjects", Join(<<",", " ">>, parents))
        found == PathsIn(tree, "triggers")
    IN  IF link_type \notin DOMAIN LINK_ELTS THEN Raised("KeyError")
        ELSE IF found = <<>> THEN Raised("AttributeError")
        ELSE LET trigger == Elt(RBT, NoText,
                                <<_create_elt("spec", NoText),
                                  upstream_projects,
                                  ThresholdElt(link_type)>>)
             IN [ok |-> TRUE,
                 conf |-> _format_xml_tree(AppendAt(tree, found[1], trigger))]

\* rbt_elt.findtext("./threshold/name")
FindThresholdName(rbt_elt) ==
    LET ths == {i \in 1..Len(rbt_elt.children) :
                   /\ rbt_elt.children[i].tag = "threshold"
                   /\ FindText(rbt_elt.children[i], "name") # NoText}
    IN  IF ths = {} THEN NoText
        ELSE FindText(rbt_elt.children[CHOOSE i \in ths : \A k \in ths : i <= k],
                      "name")

\* [x for x in upstream_projects.split(',') if x.strip()]
SplitParents(text) ==
    SelectSeq(Split(text, ","), LAMBDA x : Strip(x) # <<>>)

NoPipe == [none |-> TRUE]

\* A buggy extraction: the trigger is parsed but left in the document
extract_pipeline_conf_keep(conf) ==
    LET found == PathsIn(conf, RBT)
    IN  IF found # <<>>
        THEN LET rbt_elt == GetAt(conf, found[1])
             IN [ok |-> TRUE,
                 pipe_bits |-> [none |-> FALSE,
                                upstream_projects |->
                                    SplitParents(FindText(rbt_elt, "upstreamProjects")),
                                upstream_link_type |-> FindThresholdName(rbt_elt)],
                 pruned_conf |-> _format_xml_tree(conf)]
        ELSE [ok |-> TRUE, pipe_bits |-> NoPipe, pruned_conf |-> _format_xml_tree(conf)]

extract_pipeline_conf(conf) ==
    LET tree == conf
        found == PathsIn(tree, RBT)
    IN  IF found # <<>>
        THEN LET rbt_elt == GetAt(tree, found[1])
                 text == FindText(rbt_elt, "upstreamProjects")
             IN IF text = NoText THEN Raised("AttributeError")
                ELSE [ok |-> TRUE,
                      pipe_bits |-> [none |-> FALSE,
                                     upstream_projects |-> SplitParents(text),
                                     upstream_link_type |-> FindThresholdName(rbt_elt)],
                      pruned_conf |-> _format_xml_tree(RemoveAt(tree, found[1]))]
        ELSE [ok |-> TRUE, pipe_bits |-> NoPipe,
              pruned_conf |-> _format_xml_tree(tree)]

(***************************************************************************)
(* Inputs of the codec                                                     *)
(***************************************************************************)
TimerTrigger ==
    Elt("hudson.triggers.TimerTrigger", NoText, <<Elt("spec", Str("H * * * *"), <<>>)>>)

ServerRBT(text, link) ==
    Elt(RBT, NoText,
        <<Elt("spec", NoText, <<>>), Elt("upstreamProjects", text, <<>>),
          ThresholdElt(Str(link))>>)

Project(children) == Elt("project", NoText, children)

Description == Elt("description", NoText, <<>>)
Publishers == Elt("publishers", NoText, <<>>)
Triggers(children) == Elt("triggers", NoText, children)

Docs ==
    { Project(<<Description, Triggers(<<>>), Publishers>>),
      Project(<<Description, Triggers(<<TimerTrigger>>), Publishers>>),
      Project(<<Elt("properties", NoText, <<Triggers(<<>>)>>),
                Triggers(<<TimerTrigger>>)>>),
      Project(<<Elt("description", Str("nightly"), <<>>), Triggers(<<>>)>>),
      Project(<<Description, Publishers>>),
      Project(<<Triggers(<<ServerRBT(<<"a">>, "SUCCESS")>>), Publishers>>),
      Project(<<Description,
                Triggers(<<TimerTrigger,
                           ServerRBT(<<"a", ",", "b">>, "UNSTABLE"),
                           Elt("hudson.triggers.SCMTrigger", NoText, <<>>)>>),
                Publishers>>) }

ParentNames == {<<"a">>, <<"b">>}

LinkTypes == {Str("SUCCESS"), Str("UNSTABLE"), Str("FAILURE"), Str("ABORTED")}

NoResult == [ok |-> FALSE, error |-> "not called"]

(***************************************************************************)
(* Job configurations as the push command sees them                        *)
(***************************************************************************)
JobNames == {"a", "b"}

NoJob == [absent |-> TRUE]      \* get_job_config raises JobNotFound
NoHash == -1                    \* no hash in the description
NoMismatch == [none |-> TRUE]   \* mismatch_info = None

Conf(type, body, disabled, hash) ==
    [type |-> type, body |-> body, disabled |-> disabled, hash |-> hash]

\* repository.get_jobs_defs: the job type each template renders
JobType == [j \in JobNames |-> IF j = "a" THEN "freestyle" ELSE "multiconfig"]

OtherType(t) == IF t = "freestyle" THEN "multiconfig" ELSE "freestyle"

\* jobs.get_conf_hash: a digest of the document's payload
get_conf_hash(conf) ==
    (IF conf.type = "freestyle" THEN 0 ELSE 4)
    + (IF conf.body = "repo" THEN 0 ELSE 2)
    + (IF conf.disabled THEN 1 ELSE 0)

\* jobs.extract_hash_from_description: (saved_hash, conf without the hash)
extract_hash_from_description(conf) ==
    <<conf.hash, [conf EXCEPT !.hash = NoHash]>>

\* jobs.render_job(..., insert_hash=True): the rendered document with the
\* hash of the rendered document embedded
render_job(job_name) ==
    LET rendered == Conf(JobType[job_name], "repo", FALSE, NoHash)
    IN  [rendered EXCEPT !.hash = get_conf_hash(rendered)]

\* jobs.transfuse_disabled_flag(from_conf, to_conf)
transfuse_disabled_flag(server_conf, conf) ==
    [conf EXCEPT !.disabled = server_conf.disabled]

\* The fingerprint invariant of a document that embeds a hash
FingerprintOk(conf) ==
    LET parts == extract_hash_from_description(conf)
    IN  parts[1] # NoHash => parts[1] = get_conf_hash(parts[2])

\* jenkins_api.push_job_config: the server refuses a document whose job type
\* differs from the type of the existing job
PushRejected(server_conf, conf) ==
    server_conf # NoJob /\ server_conf.type # conf.type

(***************************************************************************)
(* cli/push.py                                                             *)
(***************************************************************************)
\* push.py:84 with the test for a missing hash dropped
IsGuiModifiedNoNoneTest(saved_hash, actual_hash) == saved_hash # actual_hash

\* push.py:84 with the comparison inverted
IsGuiModifiedInverted(saved_hash, actual_hash) ==
    saved_hash # NoHash /\ saved_hash = actual_hash

\* _check_for_gui_modifications: the condition of line 84
IsGuiModified(saved_hash, actual_hash) ==
    saved_hash # NoHash /\ saved_hash # actual_hash

\* push.py:92 with the exit forgotten
CheckVerdictNoExit(modified) == "loop"

\* _check_for_gui_modifications: lines 92-96, context.exit(1) or return
CheckVerdict(modified) == IF modified THEN "exit" ELSE "loop"

\* What the drift check sees in the document it read
Observation(conf) ==
    IF conf = NoJob THEN "absent"
    ELSE LET parts == extract_hash_from_description(conf)
         IN  IF parts[1] = NoHash THEN "nohash"
             ELSE IF parts[1] = get_conf_hash(parts[2]) THEN "clean"
             ELSE "drift"

\* One iteration of the loop of _check_for_gui_modifications (one
\* get_job_config call); after the last one the lines 92-96 and, when the
\* check returns, line 45 of push
CheckForGuiModifications ==
    /\ pc = "check"
    /\ IF allow_overwrite
       THEN /\ pc' = "loop"
            /\ remaining_jobs' = jobs_names
            /\ UNCHANGED <<check_idx, gui_was_modified, observed, reported_drift>>
       ELSE LET job_name == jobs_names[check_idx]
                conf == remote[job_name]
                modified ==
                    /\ conf # NoJob
                    /\ LET parts == extract_hash_from_description(conf)
                       IN  IsGuiModified(parts[1], get_conf_hash(parts[2]))
                flag == gui_was_modified \/ modified
            IN  /\ observed' = Append(observed, Observation(conf))
                /\ reported_drift' =
                       IF modified THEN reported_drift \cup {job_name}
                       ELSE reported_drift
                /\ gui_was_modified' = flag
                /\ IF check_idx < Len(jobs_names)
                   THEN /\ check_idx' = check_idx + 1
                        /\ pc' = "check"
                        /\ UNCHANGED remaining_jobs
                   ELSE /\ check_idx' = check_idx
                        /\ pc' = CheckVerdict(flag)
                        /\ remaining_jobs' =
                               IF pc' = "loop" THEN jobs_names ELSE remaining_jobs
    /\ UNCHANGED <<pvars, othervars, flagvars, jobs_names, allow_overwrite, confirm_replace,
                   disable_jobs_from_gui, remote, batch,
                   batch_idx, batch_remaining, final_conf, mismatch_info,
                   pushed_jobs, not_pushed_jobs, last_call, pushed_pos,
                   pushed_twice, declined, edits, built, stepvars>>

NoCall ==
    [op |-> "none", job |-> "", pos |-> 0, result |-> "", replaced |-> NoJob,
     sent |-> NoJob, prev_op |-> "none", prev_job |-> "", prev_result |-> ""]

Call(op, job, pos, result, replaced, sent) ==
    [op |-> op, job |-> job, pos |-> pos, result |-> result,
     replaced |-> replaced, sent |-> sent, prev_op |-> last_call.op,
     prev_job |-> last_call.job, prev_result |-> last_call.result]

\* _push_jobs, lines 105-111: the start of one iteration of the for loop
StartJob(job_name) ==
    /\ final_conf' = render_job(job_name)
    /\ job_steps' = <<"render", "merge_pipeline", "embed_hash">>
    /\ pc' = IF disable_jobs_from_gui THEN "fetch" ELSE "pushcall"

\* push, line 46: the test of the while loop, and the entry in _push_jobs
\* (lines 101-104)
EnterLoop ==
    /\ pc = "loop"
    /\ IF remaining_jobs = <<>>
       THEN /\ pc' = "report"
            /\ UNCHANGED <<batch, batch_idx, batch_remaining, final_conf,
                           mismatch_info, job_steps>>
       ELSE /\ batch' = remaining_jobs
            /\ batch_remaining' = remaining_jobs
            /\ mismatch_info' = NoMismatch
            /\ batch_idx' = 1
            /\ StartJob(remaining_jobs[1])
    /\ UNCHANGED <<pvars, othervars, flagvars, jobs_names, allow_overwrite, confirm_replace,
                   disable_jobs_from_gui, remote, check_idx, gui_was_modified,
                   remaining_jobs, pushed_jobs, not_pushed_jobs, histvars,
                   built, pushed_steps, last_fetch>>

\* push.py:114 with the two documents exchanged
TransfusedConfSwapped(server_conf, conf) ==
    IF server_conf = NoJob THEN conf
    ELSE transfuse_disabled_flag(conf, server_conf)

\* _push_jobs, lines 112-118: the document to push, given what get_job_config
\* answered (NoJob for JobNotFound)
TransfusedConf(server_conf, conf) ==
    IF server_conf = NoJob THEN conf
    ELSE transfuse_disabled_flag(server_conf, conf)

NoFetch == [pos |-> 0, conf |-> NoJob]

\* _push_jobs, lines 112-118: get_job_config and transfuse_disabled_flag
FetchServerConf ==
    /\ pc = "fetch"
    /\ LET server_conf == remote[batch[batch_idx]]
       IN  /\ final_conf' = TransfusedConf(server_conf, final_conf)
           /\ last_fetch' = [pos |-> Len(jobs_names) - Len(batch) + batch_idx,
                             conf |-> server_conf]
           /\ job_steps' = job_steps \o
                  (IF server_conf = NoJob THEN <<"get_job_config">>
                   ELSE <<"get_job_config", "copy_disabled">>)
    /\ pc' = "pushcall"
    /\ UNCHANGED <<pvars, othervars, flagvars, jobs_names, allow_overwrite, confirm_replace,
                   disable_jobs_from_gui, remote, check_idx, gui_was_modified,
                   remaining_jobs, batch, batch_idx, batch_remaining,
                   mismatch_info, pushed_jobs, not_pushed_jobs, histvars,
                   built, pushed_steps>>

\* push.py:128 popping the last job instead of the first
PopFirstWrongEnd(jobs) == SubSeq(jobs, 1, Len(jobs) - 1)

\* _push_jobs, line 128: remaining_jobs.pop(0)
PopFirst(jobs) == Tail(jobs)

\* The position in jobs_names of the job _push_jobs is at
Pos == Len(jobs_names) - Len(batch) + batch_idx

\* _push_jobs, lines 119-129: push_job_config, then the next iteration or
\* the return to push
PushJobConfig ==
    /\ pc = "pushcall"
    /\ pushed_steps' = Append(job_steps, "push_job_config")
    /\ LET job_name == batch[batch_idx]
           server_conf == remote[job_name]
       IN  IF PushRejected(server_conf, final_conf)
           THEN /\ mismatch_info' = [none |-> FALSE, job_name |-> job_name,
                                     expected_type |-> server_conf.type,
                                     pushed_type |-> final_conf.type]
                /\ remaining_jobs' = batch_remaining
                /\ pc' = "confirm"
                /\ last_call' = Call("push", job_name, Pos, "mismatch",
                                     server_conf, final_conf)
                /\ UNCHANGED <<remote, batch_idx, batch_remaining, final_conf,
                               pushed_pos, pushed_twice, job_steps>>
           ELSE /\ remote' = [remote EXCEPT ![job_name] = final_conf]
                /\ batch_remaining' = PopFirst(batch_remaining)
                /\ last_call' = Call("push", job_name, Pos, "ok",
                                     server_conf, final_conf)
                /\ pushed_pos' = pushed_pos \cup {Pos}
                /\ pushed_twice' = (pushed_twice \/ Pos \in pushed_pos)
                /\ UNCHANGED mismatch_info
                /\ IF batch_idx < Len(batch)
                   THEN /\ batch_idx' = batch_idx + 1
                        /\ StartJob(batch[batch_idx + 1])
                        /\ UNCHANGED remaining_jobs
                   ELSE /\ remaining_jobs' = batch_remaining'
                        /\ pc' = "loop"
                        /\ UNCHANGED <<batch_idx, final_conf, job_steps>>
    /\ UNCHANGED <<pvars, othervars, flagvars, jobs_names, allow_overwrite, confirm_replace,
                   disable_jobs_from_gui, check_idx, gui_was_modified, batch,
                   pushed_jobs, not_pushed_jobs, observed, reported_drift,
                   declined, edits, built, last_fetch>>

\* push.py:63 with the break forgotten
AfterDeclineNoBreak == "loop"

\* push, lines 62-63: break
AfterDecline == "report"

\* push.py:53 with the answer of the prompt ignored
AfterAnswerAlwaysDelete(answer) == "delete"

\* push, lines 53-63: delete_job when the replacement is accepted, the break
\* otherwise
AfterAnswer(answer) == IF answer THEN "delete" ELSE AfterDecline

\* push, lines 52-57 and _confirm_mismatching_job_type_overwrite: the prompt,
\* or True without a prompt
ConfirmMismatchingJobTypeOverwrite ==
    /\ pc = "confirm"
    /\ \E answer \in (IF confirm_replace THEN BOOLEAN ELSE {TRUE}) :
          /\ pc' = AfterAnswer(answer)
          /\ declined' = (declined \/ ~answer)
    /\ UNCHANGED <<pvars, othervars, flagvars, jobs_names, allow_overwrite, confirm_replace,
                   disable_jobs_from_gui, remote, check_idx, gui_was_modified,
                   remaining_jobs, batch, batch_idx, batch_remaining,
                   final_conf, mismatch_info, pushed_jobs, not_pushed_jobs,
                   observed, reported_drift, last_call, pushed_pos,
                   pushed_twice, edits, built, stepvars>>

\* push, lines 58-61: jenkins_api.delete_job
DeleteJob ==
    /\ pc = "delete"
    /\ remote' = [remote EXCEPT ![mismatch_info.job_name] = NoJob]
    /\ last_call' = Call("delete", mismatch_info.job_name,
                         Len(jobs_names) - Len(remaining_jobs) + 1, "ok",
                         remote[mismatch_info.job_name], NoJob)
    /\ pc' = "loop"
    /\ UNCHANGED <<pvars, othervars, flagvars, jobs_names, allow_overwrite, confirm_replace,
                   disable_jobs_from_gui, check_idx, gui_was_modified,
                   remaining_jobs, batch, batch_idx, batch_remaining,
                   final_conf, mismatch_info, pushed_jobs, not_pushed_jobs,
                   observed, reported_drift, pushed_pos, pushed_twice,
                   declined, edits, built, stepvars>>

\* push.py:64 without the difference
PushedJobsAll(names, remaining) == Range(names)

\* push, line 64: sorted(set(jobs_names).difference(remaining_jobs))
PushedJobs(names, remaining) == Range(names) \ Range(remaining)

\* push, lines 67-69: the jobs given to build.do_build
BuildTargets(names, remaining) == names

\* build.do_build: the trigger requests made, one for each job it is given,
\* in the order given
do_build(names) == names

\* push, lines 64-69: the two printed lists, and the builds with --build
Report ==
    /\ pc = "report"
    /\ pushed_jobs' = PushedJobs(jobs_names, remaining_jobs)
    /\ not_pushed_jobs' = remaining_jobs
    /\ built' = IF trigger_builds
                THEN do_build(BuildTargets(jobs_names, remaining_jobs))
                ELSE <<>>
    /\ pc' = "done"
    /\ UNCHANGED <<pvars, othervars, flagvars, jobs_names, allow_overwrite, confirm_replace,
                   disable_jobs_from_gui, remote, check_idx, gui_was_modified,
                   remaining_jobs, batch, batch_idx, batch_remaining,
                   final_conf, mismatch_info, histvars, stepvars>>

\* push.py:152 with the test dropped
PushAllowedAlways(forced, forbidden) == TRUE

\* _check_push_flag, line 152
PushAllowed(forced, forbidden) == forced \/ ~forbidden

\* push, line 40: _check_push_flag, context.exit(1) or return
CheckPushFlag ==
    /\ pc = "flag"
    /\ pc' = IF PushAllowed(force, forbid_push) THEN "check" ELSE "forbidden"
    /\ UNCHANGED <<pvars, othervars, flagvars, jobs_names, allow_overwrite,
                   confirm_replace, disable_jobs_from_gui, remote, check_idx,
                   gui_was_modified, remaining_jobs, batch, batch_idx,
                   batch_remaining, final_conf, mismatch_info, pushed_jobs,
                   not_pushed_jobs, histvars, built, stepvars>>

(***************************************************************************)
(* The Jenkins GUI: edits of the server's jobs made outside the push run   *)
(***************************************************************************)
EditKinds == {"configure", "toggle", "recreate"}

Edited(conf, job_name, kind) ==
    IF kind = "recreate"
    THEN Conf(OtherType(JobType[job_name]), "gui", FALSE, NoHash)
    ELSE IF conf = NoJob THEN NoJob
    ELSE IF kind = "configure" THEN [conf EXCEPT !.body = "gui"]
    ELSE [conf EXCEPT !.disabled = ~conf.disabled]

GuiEdit(job_name, kind) ==
    /\ pc \in {"check", "loop", "fetch", "pushcall", "confirm", "delete"}
    /\ Edited(remote[job_name], job_name, kind) # remote[job_name]
    /\ remote' = [remote EXCEPT ![job_name] = Edited(remote[job_name], job_name, kind)]
    /\ UNCHANGED <<pvars, othervars, flagvars, pc, jobs_names, allow_overwrite, confirm_replace,
                   disable_jobs_from_gui, check_idx, gui_was_modified,
                   remaining_jobs, batch, batch_idx, batch_remaining,
                   final_conf, mismatch_info, pushed_jobs, not_pushed_jobs,
                   observed, reported_drift, last_call, pushed_pos,
                   pushed_twice, declined, built, stepvars>>

\* At most MaxEdits edits during the run
ExternalEdit ==
    /\ edits < MaxEdits
    /\ edits' = edits + 1
    /\ \E job_name \in Range(jobs_names), kind \in EditKinds : GuiEdit(job_name, kind)

\* The job is created again with the other job type, any number of times
ExternalRecreate ==
    /\ UNCHANGED edits
    /\ \E job_name \in Range(jobs_names) : GuiEdit(job_name, "recreate")

(***************************************************************************)
(* cli/build.py: the build command. The file is Python 2 code: items() of  *)
(* a dict is a list made when the for loop starts, in an order that does   *)
(* not depend on the order of insertion.                                   *)
(***************************************************************************)
NotFound == 404
Null == "None"                  \* a JSON null, None
BuildResults == {"SUCCESS", "UNSTABLE", "FAILURE"}
NoUrl == <<>>
NoFailure == [phase |-> "none", job |-> ""]

EmptyDict == [k \in {} |-> NoUrl]
Del(dct, key) == [k \in DOMAIN dct \ {key} |-> dct[k]]
Put(dct, key, value) ==
    [k \in DOMAIN dct \cup {key} |-> IF k = key THEN value ELSE dct[k]]

QueueUrl(name) == <<"queue", "item", name>>
BuildUrl(name) == <<"job", name>>
RunsUrls(name) ==
    IF JobType[name] = "multiconfig"
    THEN << <<"job", name, "x">>, <<"job", name, "y">> >>
    ELSE <<>>

\* What Jenkins answers to get_object(queue_url)
QueueAnswers(name) ==
    (IF qstate[name] = "gone"
     THEN {[status |-> NotFound]}
     ELSE {[status |-> 200, executable |-> executable[name]]})
    \cup {[status |-> 500]}

\* What Jenkins answers to get_object(build_url)
BuildAnswers(name) ==
    {[status |-> 200, result |-> build_result[name], runs |-> RunsUrls(name)],
     [status |-> 500]}

\* build.py:149 with every error re-raised
OnHttpErrorAlwaysRaise(status_code) == "raise"

\* build.py:149 with every error ignored
OnHttpErrorNeverRaise(status_code) == "ignore"

\* _get_builds_urls, lines 151-159: the except clause
OnHttpError(status_code) ==
    IF status_code = NotFound THEN "ignore" ELSE "raise"

\* build.py:173 without the test
IsDoneAlways(result) == TRUE

\* _poll_builds, line 173: result is not None
IsDone(result) == result # Null

\* build.py:144 and 169 with loops that end after any sweep
WorkingSetEmptyAlways(dct) == TRUE

\* _get_builds_urls, line 144, and _poll_builds, line 169: the while tests,
\* false for an empty dict only
WorkingSetEmpty(dct) == DOMAIN dct = {}

\* build.py:176 without the del
AfterRecordKeep(dct, key) == dct

\* _poll_builds, line 176: del builds_urls[job_name]
AfterRecord(dct, key) == Del(dct, key)

\* build, line 41: r is a (build_url, result, runs_urls) tuple, which differs
\* from any string
ExitCode(res) == IF \E name \in DOMAIN res : TRUE THEN 1 ELSE 0

\* trigger_builds, lines 52-60: one iteration of the for loop; after the last
\* one line 36 of build
TriggerBuild ==
    /\ bpc = "trigger"
    /\ LET name == build_jobs[trig_idx]
       IN  \E answered \in BOOLEAN :
              IF answered
              THEN /\ queue_urls' = Put(queue_urls, name, QueueUrl(name))
                   /\ qstate' = [qstate EXCEPT ![name] = "waiting"]
                   /\ executable' = [executable EXCEPT ![name] = NoUrl]
                   /\ build_result' = [build_result EXCEPT ![name] = Null]
                   /\ IF trig_idx < Len(build_jobs)
                      THEN trig_idx' = trig_idx + 1 /\ bpc' = "trigger"
                      ELSE /\ trig_idx' = trig_idx
                           /\ bpc' = IF block THEN "queue" ELSE "returned"
                   /\ UNCHANGED failed
              ELSE /\ bpc' = "error"
                   /\ failed' = [phase |-> "trigger", job |-> name]
                   /\ UNCHANGED <<queue_urls, qstate, executable, build_result,
                                  trig_idx>>
    /\ UNCHANGED <<pvars, runvars, histvars, pushext, prvars, mvars, build_jobs, block,
                   ret_builds, builds_urls, results, todo, unknown, presented,
                   exit_code, recorded, not_found>>

\* _get_builds_urls, lines 144-145: the while test and the items of the for
\* loop; when the dict is empty the return, and lines 167-168 of _poll_builds
QueueSweep ==
    /\ bpc = "queue"
    /\ todo = {}
    /\ IF WorkingSetEmpty(queue_urls)
       THEN /\ bpc' = "poll"
            /\ builds_urls' = ret_builds
            /\ UNCHANGED todo
       ELSE /\ todo' = DOMAIN queue_urls
            /\ UNCHANGED <<bpc, builds_urls>>
    /\ UNCHANGED <<pvars, runvars, histvars, pushext, prvars, mvars, build_jobs, block,
                   trig_idx, queue_urls, ret_builds, results, unknown,
                   presented, exit_code, qstate, executable, build_result,
                   recorded, not_found, failed>>

\* _get_builds_urls, lines 146-162: one iteration of the for loop
GetQueueInfos ==
    /\ bpc = "queue"
    /\ \E job_name \in todo : \E answer \in QueueAnswers(job_name) :
          /\ todo' = todo \ {job_name}
          /\ not_found' = IF answer.status = NotFound
                          THEN not_found \cup {job_name} ELSE not_found
          /\ failed' = IF answer.status \notin {200, NotFound}
                       THEN [phase |-> "queue", job |-> job_name] ELSE failed
          /\ IF answer.status # 200
             THEN IF OnHttpError(answer.status) = "ignore"
                  THEN /\ unknown' = unknown \cup {job_name}
                       /\ queue_urls' = Del(queue_urls, job_name)
                       /\ UNCHANGED <<bpc, ret_builds>>
                  ELSE /\ bpc' = "error"
                       /\ UNCHANGED <<unknown, queue_urls, ret_builds>>
             ELSE IF answer.executable # NoUrl
                  THEN /\ ret_builds' = Put(ret_builds, job_name, answer.executable)
                       /\ queue_urls' = Del(queue_urls, job_name)
                       /\ UNCHANGED <<bpc, unknown>>
                  ELSE UNCHANGED <<bpc, unknown, queue_urls, ret_builds>>
    /\ UNCHANGED <<pvars, runvars, histvars, pushext, prvars, mvars, build_jobs, block,
                   trig_idx, builds_urls, results, presented, exit_code,
                   qstate, executable, build_result, recorded>>

\* _poll_builds, lines 169-170: the while test and the items of the for loop;
\* when the dict is empty the return to build, line 38
PollSweep ==
    /\ bpc = "poll"
    /\ todo = {}
    /\ IF WorkingSetEmpty(builds_urls)
       THEN bpc' = "present" /\ UNCHANGED todo
       ELSE todo' = DOMAIN builds_urls /\ UNCHANGED bpc
    /\ UNCHANGED <<pvars, runvars, histvars, pushext, prvars, mvars, build_jobs, block,
                   trig_idx, queue_urls, ret_builds, builds_urls, results,
                   unknown, presented, exit_code, qstate, executable,
                   build_result, recorded, not_found, failed>>

\* _poll_builds, lines 171-176: one iteration of the for loop
GetBuildInfos ==
    /\ bpc = "poll"
    /\ \E job_name \in todo : \E answer \in BuildAnswers(job_name) :
          /\ todo' = todo \ {job_name}
          /\ IF answer.status # 200
             THEN /\ bpc' = "error"
                  /\ failed' = [phase |-> "poll", job |-> job_name]
                  /\ UNCHANGED <<results, builds_urls, recorded>>
             ELSE /\ UNCHANGED <<bpc, failed>>
                  /\ IF IsDone(answer.result)
                     THEN /\ results' =
                                 Put(results, job_name,
                                     [build_url |-> builds_urls[job_name],
                                      result |-> answer.result,
                                      runs_urls |-> answer.runs])
                          /\ builds_urls' = AfterRecord(builds_urls, job_name)
                          /\ recorded' = [recorded EXCEPT ![job_name] = @ + 1]
                     ELSE UNCHANGED <<results, builds_urls, recorded>>
    /\ UNCHANGED <<pvars, runvars, histvars, pushext, prvars, mvars, build_jobs, block,
                   trig_idx, queue_urls, ret_builds, unknown, presented,
                   exit_code, qstate, executable, build_result, not_found>>

\* build, lines 38-40: one iteration of the for loop over results.items()
PrintResult ==
    /\ bpc = "present"
    /\ \E job_name \in DOMAIN results \ Range(presented) :
          presented' = Append(presented, job_name)
    /\ UNCHANGED <<pvars, runvars, histvars, pushext, prvars, mvars, bpc, build_jobs, block,
                   trig_idx, queue_urls, ret_builds, builds_urls, results,
                   todo, unknown, exit_code, qstate, executable, build_result,
                   recorded, not_found, failed>>

\* build, line 41: sys.exit
Exit ==
    /\ bpc = "present"
    /\ DOMAIN results \subseteq Range(presented)
    /\ exit_code' = ExitCode(results)
    /\ bpc' = "exit"
    /\ UNCHANGED <<pvars, runvars, histvars, pushext, prvars, mvars, build_jobs, block,
                   trig_idx, queue_urls, ret_builds, builds_urls, results,
                   todo, unknown, presented, qstate, executable, build_result,
                   recorded, not_found, failed>>

\* Jenkins, while the build command runs: a queue item gets its build, a
\* queue item is dropped, a build finishes
Jenkins ==
    /\ bpc \in {"trigger", "queue", "poll"}
    /\ \E name \in Range(build_jobs) :
          \/ /\ qstate[name] = "waiting"
             /\ qstate' = [qstate EXCEPT ![name] = "left"]
             /\ executable' = [executable EXCEPT ![name] = BuildUrl(name)]
             /\ UNCHANGED build_result
          \/ /\ qstate[name] \in {"waiting", "left"}
             /\ qstate' = [qstate EXCEPT ![name] = "gone"]
             /\ UNCHANGED <<executable, build_result>>
          \/ /\ executable[name] # NoUrl
             /\ build_result[name] = Null
             /\ \E result \in BuildResults :
                   build_result' = [build_result EXCEPT ![name] = result]
             /\ UNCHANGED <<qstate, executable>>
    /\ UNCHANGED <<pvars, runvars, histvars, pushext, prvars, mvars, bpc, build_jobs, block,
                   trig_idx, queue_urls, ret_builds, builds_urls, results,
                   todo, unknown, presented, exit_code, recorded, not_found,
                   failed>>

BuildIdle ==
    /\ bpc = "idle"
    /\ build_jobs = <<>>
    /\ block = FALSE
    /\ trig_idx = 1
    /\ queue_urls = EmptyDict
    /\ ret_builds = EmptyDict
    /\ builds_urls = EmptyDict
    /\ results = EmptyDict
    /\ todo = {}
    /\ unknown = {}
    /\ presented = <<>>
    /\ exit_code = 0
    /\ qstate = [j \in JobNames |-> "none"]
    /\ executable = [j \in JobNames |-> NoUrl]
    /\ build_result = [j \in JobNames |-> Null]
    /\ recorded = [j \in JobNames |-> 0]
    /\ not_found = {}
    /\ failed = NoFailure

(***************************************************************************)
(* cli/build.py: print_build_result. A build or a run is the object        *)
(* get_object returns for its location: [name, result, runs]; a location   *)
(* is modelled by the object it designates.                                *)
(***************************************************************************)
NotGiven == [given |-> FALSE, urls |-> <<>>]    \* runs_urls=None
Given(urls) == [given |-> TRUE, urls |-> urls]

\* One printed line: "<prefix><name>: <result>", "<prefix><name>: build is in
\* progress", or the log of the build between its two banners
Line(kind, prefix, job_name, result) ==
    [kind |-> kind, prefix |-> prefix, name |-> job_name, result |-> result]

RECURSIVE print_build_result(_, _, _, _, _, _)

\* build.py:100-104 without the return
print_build_result_no_return(job_name, build, result, runs_urls, prefix, failures_only) ==
    LET result1 == IF result = Null THEN build.result ELSE result
        runs1 == IF runs_urls.given THEN runs_urls.urls ELSE build.runs
        logged == ~failures_only \/ result1 # "SUCCESS"
    IN  (IF result1 = Null
         THEN <<Line("in_progress", prefix, job_name, Null)>>
         ELSE <<Line("result", prefix, job_name, result1)>>)
        \o (IF logged /\ result1 # Null /\ runs1 = <<>>
            THEN <<Line("log", "", job_name, result1)>> ELSE <<>>)
        \o (IF logged
            THEN Flatten([i \in 1..Len(runs1) |->
                     print_build_result(runs1[i].name, runs1[i],
                                        runs1[i].result, Given(<<>>), "    ",
                                        failures_only)])
            ELSE <<>>)

\* build.py:125 with the for loop outside of the if of line 110
print_build_result_runs_always(job_name, build, result, runs_urls, prefix, failures_only) ==
    LET result1 == IF result = Null THEN build.result ELSE result
        runs1 == IF runs_urls.given THEN runs_urls.urls ELSE build.runs
    IN  IF result1 = Null
        THEN <<Line("in_progress", prefix, job_name, Null)>>
        ELSE <<Line("result", prefix, job_name, result1)>>
             \o (IF (~failures_only \/ result1 # "SUCCESS") /\ runs1 = <<>>
                 THEN <<Line("log", "", job_name, result1)>> ELSE <<>>)
             \o Flatten([i \in 1..Len(runs1) |->
                    print_build_result(runs1[i].name, runs1[i],
                                       runs1[i].result, Given(<<>>), "    ",
                                       failures_only)])

\* print_build_result, lines 81-137: the lines it prints
print_build_result(job_name, build, result, runs_urls, prefix, failures_only) ==
    LET result1 == IF result = Null THEN build.result ELSE result
        runs1 == IF runs_urls.given THEN runs_urls.urls ELSE build.runs
    IN  IF result1 = Null
        THEN <<Line("in_progress", prefix, job_name, Null)>>
        ELSE <<Line("result", prefix, job_name, result1)>>
             \o (IF ~failures_only \/ result1 # "SUCCESS"
                 THEN (IF runs1 = <<>>
                       THEN <<Line("log", "", job_name, result1)>>
                       ELSE <<>>)
                      \o Flatten([i \in 1..Len(runs1) |->
                             print_build_result(runs1[i].name, runs1[i],
                                                runs1[i].result, Given(<<>>),
                                                "    ", failures_only)])
                 ELSE <<>>)

\* The runs of a multi-configuration build: run_info of each run
Run(i, result) == [name |-> <<"job", "run", i>>, result |-> result, runs |-> <<>>]

Builds ==
    {[name |-> "job", result |-> result,
      runs |-> [i \in 1..Len(runs) |-> Run(i, runs[i])]] :
        result \in BuildResults \cup {Null},
        runs \in SeqsUpTo(BuildResults \cup {Null}, MaxRuns)}

\* One call of print_build_result from outside
PrintBuildResult ==
    /\ prpc = "start"
    /\ printed' = print_build_result(pr_build.name, pr_build, pr_result,
                                     pr_runs_urls, "", only_log_failures)
    /\ prpc' = "printed"
    /\ UNCHANGED <<pvars, runvars, histvars, pushext, bvars, mvars, pr_build,
                   pr_result, pr_runs_urls, only_log_failures>>

PrintIdle ==
    /\ prpc = "idle"
    /\ pr_build = [name |-> "job", result |-> Null, runs |-> <<>>]
    /\ pr_result = Null
    /\ pr_runs_urls = NotGiven
    /\ only_log_failures = TRUE
    /\ printed = <<>>

(***************************************************************************)
(* utils.py: deep_merge. A value is a scalar or a dict; a dict is its      *)
(* items, a function from keys to values.                                  *)
(***************************************************************************)
Scalar(v) == [kind |-> "scalar", value |-> v]
Mapping(items) == [kind |-> "dict", items |-> items]

\* _flatten_dict, line 228: isinstance(value, collections.abc.Mapping)
IsMapping(value) == value.kind = "dict"

\* _flatten_dict: the (path, value) items of the leaves of dct
RECURSIVE _flatten_dict(_, _)
_flatten_dict(dct, ancestors) ==
    UNION {(LET path == Append(ancestors, key)
                value == dct.items[key]
            IN  IF IsMapping(value) THEN _flatten_dict(value, path)
                ELSE {<<path, value>>}) : key \in DOMAIN dct.items}

flatten_dict(dct) == _flatten_dict(dct, <<>>)

\* set_path_in_dict(cur, keys, value, inplace=True): the loop of lines
\* 101-106 from cur on. setdefault and the item assignment raise when cur is
\* not a dict
RECURSIVE set_path_in_dict(_, _, _)
set_path_in_dict(cur, keys, value) ==
    IF Len(keys) > 1
    THEN IF ~IsMapping(cur) THEN Raised("AttributeError")
         ELSE LET sub == IF keys[1] \in DOMAIN cur.items THEN cur.items[keys[1]]
                         ELSE Mapping(EmptyDict)
                  res == set_path_in_dict(sub, Tail(keys), value)
              IN  IF res.ok
                  THEN [ok |-> TRUE,
                        dct |-> Mapping(Put(cur.items, keys[1], res.dct))]
                  ELSE res
    ELSE IF ~IsMapping(cur) THEN Raised("TypeError")
         ELSE [ok |-> TRUE, dct |-> Mapping(Put(cur.items, keys[1], value))]

\* deep_merge, lines 122-123: the for loop over flat_b.items(); dct is ret as
\* the loop left it
RECURSIVE SetPaths(_, _)
SetPaths(ret, flat_b) ==
    IF flat_b = {} THEN [ok |-> TRUE, error |-> "", dct |-> ret]
    ELSE LET item == CHOOSE i \in flat_b : TRUE
             res == set_path_in_dict(ret, item[1], item[2])
         IN  IF res.ok THEN SetPaths(res.dct, flat_b \ {item})
             ELSE [ok |-> FALSE, error |-> res.error, dct |-> ret]

\* deep_merge(dct_a, dct_b)
deep_merge(a, b) == SetPaths(a, flatten_dict(b))

MergeKeys == {"k", "m"}
Scalars == {Scalar("x"), Scalar("y")}

\* The dicts nested at most depth deep
RECURSIVE Dicts(_)
Dicts(depth) ==
    LET values == IF depth > 1 THEN Scalars \cup Dicts(depth - 1) ELSE Scalars
    IN  {Mapping(items) :
            items \in UNION {[keys -> values] : keys \in SUBSET MergeKeys}}

\* One call of deep_merge; with inplace ret is dct_a itself, without it a
\* deep copy (lines 117-120)
DeepMerge ==
    /\ mpc = "start"
    /\ merged' = deep_merge(dct_a, dct_b)
    /\ a_after' = IF inplace THEN merged'.dct ELSE dct_a
    /\ b_after' = dct_b
    /\ mpc' = "merged"
    /\ UNCHANGED <<pvars, runvars, histvars, pushext, bvars, prvars, dct_a,
                   dct_b, inplace>>

MergeIdle ==
    /\ mpc = "idle"
    /\ dct_a = Mapping(EmptyDict)
    /\ dct_b = Mapping(EmptyDict)
    /\ inplace = FALSE
    /\ merged = NoResult
    /\ a_after = Mapping(EmptyDict)
    /\ b_after = Mapping(EmptyDict)

(***************************************************************************)
(* Specifications                                                          *)
(***************************************************************************)
InitConfs(job_name) ==
    { NoJob,
      render_job(job_name),
      [render_job(job_name) EXCEPT !.body = "gui"],
      [render_job(job_name) EXCEPT !.disabled = TRUE],
      Conf(JobType[job_name], "gui", FALSE, NoHash),
      Conf(OtherType(JobType[job_name]), "gui", FALSE, NoHash) }

CodecIdle ==
    /\ ppc = "idle"
    /\ pconf = Project(<<>>)
    /\ pparents = <<>>
    /\ plink = Str("SUCCESS")
    /\ pmerged = NoResult
    /\ pextracted = NoResult

PushIdle ==
    /\ pc = "idle"
    /\ jobs_names = <<>>
    /\ allow_overwrite = FALSE
    /\ confirm_replace = FALSE
    /\ disable_jobs_from_gui = FALSE
    /\ remote = [j \in JobNames |-> NoJob]
    /\ check_idx = 1
    /\ gui_was_modified = FALSE
    /\ remaining_jobs = <<>>
    /\ batch = <<>>
    /\ batch_idx = 1
    /\ batch_remaining = <<>>
    /\ final_conf = NoJob
    /\ mismatch_info = NoMismatch
    /\ pushed_jobs = {}
    /\ not_pushed_jobs = <<>>
    /\ observed = <<>>
    /\ reported_drift = {}
    /\ last_call = NoCall
    /\ pushed_pos = {}
    /\ pushed_twice = FALSE
    /\ declined = FALSE
    /\ edits = 0
    /\ force = FALSE
    /\ forbid_push = FALSE
    /\ trigger_builds = FALSE
    /\ built = <<>>
    /\ job_steps = <<>>
    /\ pushed_steps = <<>>
    /\ last_fetch = NoFetch

\* The arguments of push, the server, and the locals of push before they
\* are assigned
InitRun ==
    /\ CodecIdle
    /\ BuildIdle
    /\ PrintIdle
    /\ MergeIdle
    /\ jobs_names \in SeqsUpTo(JobNames, MaxJobs) \ {<<>>}
    /\ allow_overwrite \in BOOLEAN
    /\ confirm_replace \in BOOLEAN
    /\ disable_jobs_from_gui \in BOOLEAN
    /\ remote \in [JobNames -> UNION {InitConfs(j) : j \in JobNames}]
    /\ \A j \in JobNames :
          remote[j] \in (IF j \in Range(jobs_names) THEN InitConfs(j) ELSE {NoJob})
    /\ check_idx = 1
    /\ gui_was_modified = FALSE
    /\ remaining_jobs = <<>>
    /\ batch = <<>>
    /\ batch_idx = 1
    /\ batch_remaining = <<>>
    /\ final_conf = NoJob
    /\ mismatch_info = NoMismatch
    /\ pushed_jobs = {}
    /\ not_pushed_jobs = <<>>
    /\ observed = <<>>
    /\ reported_drift = {}
    /\ last_call = NoCall
    /\ pushed_pos = {}
    /\ pushed_twice = FALSE
    /\ declined = FALSE
    /\ edits = 0
    /\ built = <<>>
    /\ job_steps = <<>>
    /\ pushed_steps = <<>>
    /\ last_fetch = NoFetch

\* The state of a push run that is allowed to push when _check_push_flag has
\* returned (line 41); nothing after that line reads force or forbid_push
Init ==
    /\ InitRun
    /\ pc = "check"
    /\ force = FALSE
    /\ forbid_push = FALSE
    /\ trigger_builds = FALSE

\* The state at the entry of push, after the decorators checked the names
InitCommand ==
    /\ InitRun
    /\ pc = "flag"
    /\ force \in BOOLEAN
    /\ forbid_push \in BOOLEAN
    /\ trigger_builds \in BOOLEAN

PushStep ==
    \/ CheckForGuiModifications
    \/ EnterLoop
    \/ FetchServerConf
    \/ PushJobConfig
    \/ ConfirmMismatchingJobTypeOverwrite
    \/ DeleteJob
    \/ Report

Next == PushStep \/ ExternalEdit

Spec == Init /\ [][Next]_vars

\* The whole push command, on a server nobody else edits
NextCommand == CheckPushFlag \/ PushStep

SpecCommand == InitCommand /\ [][NextCommand]_vars

(***************************************************************************)
(* The codec applied to bounded inputs                                     *)
(***************************************************************************)
InitCodec ==
    /\ PushIdle
    /\ BuildIdle
    /\ PrintIdle
    /\ MergeIdle
    /\ ppc = "start"
    /\ pconf \in Docs
    /\ pparents \in SeqsUpTo(ParentNames, MaxParents)
    /\ plink \in LinkTypes
    /\ pmerged = NoResult
    /\ pextracted = NoResult

\* merge_pipeline_conf(pconf, pparents, plink)
Merge ==
    /\ ppc = "start"
    /\ pmerged' = merge_pipeline_conf(pconf, pparents, plink)
    /\ ppc' = "merged"
    /\ UNCHANGED <<pconf, pparents, plink, pextracted, runvars, histvars, pushext, othervars>>

\* extract_pipeline_conf of the document merge_pipeline_conf returned
ExtractMerged ==
    /\ ppc = "merged"
    /\ pmerged.ok
    /\ pextracted' = extract_pipeline_conf(pmerged.conf)
    /\ ppc' = "extracted"
    /\ UNCHANGED <<pconf, pparents, plink, pmerged, runvars, histvars, pushext, othervars>>

\* extract_pipeline_conf(pconf)
Extract ==
    /\ ppc = "start"
    /\ pextracted' = extract_pipeline_conf(pconf)
    /\ ppc' = "pruned"
    /\ UNCHANGED <<pconf, pparents, plink, pmerged, runvars, histvars, pushext, othervars>>

NextCodec == Merge \/ ExtractMerged \/ Extract

SpecCodec == InitCodec /\ [][NextCodec]_vars

(***************************************************************************)
(* The build command                                                       *)
(***************************************************************************)
\* The state at the entry of build
InitBuild ==
    /\ CodecIdle
    /\ PushIdle
    /\ PrintIdle
    /\ MergeIdle
    /\ bpc = "trigger"
    /\ build_jobs \in SeqsUpTo(JobNames, MaxBuildJobs) \ {<<>>}
    /\ block \in BOOLEAN
    /\ trig_idx = 1
    /\ queue_urls = EmptyDict
    /\ ret_builds = EmptyDict
    /\ builds_urls = EmptyDict
    /\ results = EmptyDict
    /\ todo = {}
    /\ unknown = {}
    /\ presented = <<>>
    /\ exit_code = 0
    /\ qstate = [j \in JobNames |-> "none"]
    /\ executable = [j \in JobNames |-> NoUrl]
    /\ build_result = [j \in JobNames |-> Null]
    /\ recorded = [j \in JobNames |-> 0]
    /\ not_found = {}
    /\ failed = NoFailure

BuildStep ==
    \/ TriggerBuild
    \/ QueueSweep
    \/ GetQueueInfos
    \/ PollSweep
    \/ GetBuildInfos
    \/ PrintResult
    \/ Exit

NextBuild == BuildStep \/ Jenkins

SpecBuild == InitBuild /\ [][NextBuild]_vars

\* The build command goes on as long as it can: every remote call returns
\* and every sleep ends. Jenkins goes on too: a queue item does not wait for
\* ever and a build does not run for ever.
FairSpecBuild ==
    InitBuild /\ [][NextBuild]_vars /\ WF_vars(BuildStep) /\ WF_vars(Jenkins)

(***************************************************************************)
(* print_build_result applied to bounded builds                            *)
(***************************************************************************)
\* A call with the result and the runs given, as build makes it, or left out
InitPrint ==
    /\ CodecIdle
    /\ PushIdle
    /\ BuildIdle
    /\ MergeIdle
    /\ prpc = "start"
    /\ pr_build \in Builds
    /\ pr_result \in {Null, pr_build.result}
    /\ pr_runs_urls \in {NotGiven, Given(pr_build.runs)}
    /\ only_log_failures \in BOOLEAN
    /\ printed = <<>>

NextPrint == PrintBuildResult

SpecPrint == InitPrint /\ [][NextPrint]_vars

(***************************************************************************)
(* deep_merge applied to bounded dicts                                     *)
(***************************************************************************)
InitMerge ==
    /\ CodecIdle
    /\ PushIdle
    /\ BuildIdle
    /\ PrintIdle
    /\ mpc = "start"
    /\ dct_a \in Dicts(MaxDepth)
    /\ dct_b \in Dicts(MaxDepth)
    /\ inplace \in BOOLEAN
    /\ merged = NoResult
    /\ a_after = dct_a
    /\ b_after = dct_b

NextMerge == DeepMerge

SpecMerge == InitMerge /\ [][NextMerge]_vars

(***************************************************************************)
(* Claims about the codec                                                  *)
(***************************************************************************)
HasTriggers(conf) == PathsIn(conf, "triggers") # <<>>
HasRBT(conf) == PathsIn(conf, RBT) # <<>>
ValidLink(link_type) == link_type \in {Str("SUCCESS"), Str("UNSTABLE"), Str("FAILURE")}

\* C8: for a document with a triggers collection and no upstream trigger, any
\* parents list and any of the three link types, extracting from the merged
\* document returns exactly (parents, link type) and a document equal to the
\* original one.
C8_RoundTrip ==
    (ppc = "extracted" /\ HasTriggers(pconf) /\ ~HasRBT(pconf) /\ ValidLink(plink))
    => /\ pextracted.ok
       /\ pextracted.pipe_bits =
              [none |-> FALSE, upstream_projects |-> pparents,
               upstream_link_type |-> plink]
       /\ pextracted.pruned_conf = pconf

\* The element is an upstream trigger whose threshold is the name of a link
\* type followed by the three elements of that link type
CompleteRBT(e) ==
    /\ e.tag = RBT
    /\ FindThresholdName(e) \in DOMAIN LINK_ELTS
    /\ \E i \in 1..Len(e.children) :
          e.children[i] = ThresholdElt(FindThresholdName(e))

\* The document holds an upstream trigger with a missing or incomplete
\* threshold
RECURSIVE HasPartialRBT(_)
HasPartialRBT(e) ==
    \/ e.tag = RBT /\ ~CompleteRBT(e)
    \/ \E i \in 1..Len(e.children) : HasPartialRBT(e.children[i])

\* C9: merge_pipeline_conf with a link type outside SUCCESS, UNSTABLE, FAILURE
\* raises and returns no document; a document it does return carries no
\* upstream trigger with a missing or incomplete threshold.
C9_InvalidLinkRejected ==
    ppc \in {"merged", "extracted"} =>
        /\ ~ValidLink(plink) => (~pmerged.ok /\ pmerged.error = "KeyError")
        /\ pmerged.ok => (HasRBT(pmerged.conf) /\ ~HasPartialRBT(pmerged.conf))

C9_Witness ==
    /\ ppc = "merged"
    /\ plink = Str("ABORTED")
    /\ HasTriggers(pconf)
    /\ Len(pparents) = 2
    /\ ~pmerged.ok

(***************************************************************************)
(* The push run under fair scheduling: the command keeps running while it  *)
(* can (every remote call and every prompt returns); nothing obliges the   *)
(* GUI to act, and nothing bounds how often a job is created again.        *)
(***************************************************************************)
NextFair == PushStep \/ ExternalRecreate

FairSpec == Init /\ [][NextFair]_vars /\ WF_vars(PushStep)

(***************************************************************************)
(* Claims about the push run                                               *)
(***************************************************************************)
Ended == pc \in {"done", "exit"}

\* The positions of jobs_names the drift check saw as drifted
DriftPositions == {i \in 1..Len(observed) : observed[i] = "drift"}

\* C1: when the type conflict of the job at position x was declined, the run
\* ends with the job at x and every later job reported not pushed and every
\* earlier job reported pushed, and the rejected push is the last push or
\* delete call of the run.
C1_DeclinedReport ==
    (pc = "done" /\ declined) =>
        /\ last_call.op = "push" /\ last_call.result = "mismatch"
        /\ \A i \in 1..Len(jobs_names) :
              IF i >= last_call.pos
              THEN /\ jobs_names[i] \in Range(not_pushed_jobs)
                   /\ jobs_names[i] \notin pushed_jobs
              ELSE /\ jobs_names[i] \in pushed_jobs
                   /\ jobs_names[i] \notin Range(not_pushed_jobs)

\* C2 as stated: without allow-overwrite no push_job_config call replaces a
\* document that, at the moment of the call, embeds a hash differing from
\* the hash of its content.
C2_NoSilentOverwrite ==
    ~allow_overwrite =>
        ~(/\ last_call.op = "push"
          /\ last_call.result = "ok"
          /\ Observation(last_call.replaced) = "drift")

\* C2 amended: without allow-overwrite a push_job_config or delete_job call
\* is made only after the drift check has read every requested job and found
\* none of them drifted at the time it read it.
C2_NoCallAfterObservedDrift ==
    (~allow_overwrite /\ last_call.op # "none") =>
        /\ Len(observed) = Len(jobs_names)
        /\ DriftPositions = {}

C2_Witness ==
    /\ ~allow_overwrite
    /\ last_call.op = "push"
    /\ last_call.result = "ok"
    /\ Observation(last_call.replaced) = "drift"
    /\ edits = 1

\* C3 as stated: without allow-overwrite, in a run that ended without a
\* declined type conflict, a conflict was reported for exactly the drifted
\* jobs and every job that was not drifted has been pushed.
C3_OthersStillPushed ==
    (~allow_overwrite /\ Ended /\ ~declined) =>
        /\ reported_drift = {jobs_names[i] : i \in DriftPositions}
        /\ \A i \in 1..Len(jobs_names) : i \notin DriftPositions => i \in pushed_pos

\* C3 amended: without allow-overwrite a conflict is reported for exactly the
\* jobs the check read as drifted; if there is one the run exits after the
\* check without any push_job_config or delete_job call, so that no job of
\* the batch is pushed, and if there is none the run does not exit.
C3_DriftRefusesWholeRun ==
    ~allow_overwrite =>
        /\ reported_drift = {jobs_names[i] : i \in DriftPositions}
        /\ pc # "check" =>
              /\ Len(observed) = Len(jobs_names)
              /\ DriftPositions # {} =>
                    (pc = "exit" /\ last_call = NoCall /\ pushed_pos = {})
              /\ DriftPositions = {} => pc # "exit"

C3_Witness ==
    /\ ~allow_overwrite
    /\ pc = "exit"
    /\ \E i, k \in 1..Len(observed) :
          /\ observed[i] = "drift"
          /\ observed[k] = "clean"
          /\ jobs_names[i] # jobs_names[k]

C5_DeleteThenResume ==
    /\ (last_call.op = "push" /\ last_call.result = "mismatch")
          => pc \in {"confirm", "delete", "report", "done"}
    /\ last_call.op = "push"
          => ~(last_call.prev_op = "push" /\ last_call.prev_result = "mismatch")
    /\ pc = "delete"
          => /\ remaining_jobs # <<>>
             /\ mismatch_info.job_name = remaining_jobs[1]
    /\ last_call.op = "delete"
          => /\ last_call.prev_op = "push" /\ last_call.prev_result = "mismatch"
             /\ last_call.prev_job = last_call.job
             /\ jobs_names[last_call.pos] = last_call.job
             /\ pc = "loop" =>
                   remaining_jobs =
                       SubSeq(jobs_names, last_call.pos, Len(jobs_names))
             /\ pc \in {"fetch", "pushcall"} =>
                   /\ batch = SubSeq(jobs_names, last_call.pos, Len(jobs_names))
                   /\ batch_idx = 1
    /\ ~pushed_twice
    /\ pc \in {"fetch", "pushcall"} => \A p \in pushed_pos : p < Pos

C5_Witness ==
    /\ last_call.op = "push"
    /\ last_call.result = "ok"
    /\ last_call.prev_op = "delete"
    /\ last_call.prev_job = last_call.job
    /\ last_call.pos = 2
    /\ pushed_pos = {1, 2}
    /\ pc = "pushcall"
    /\ batch_remaining = <<jobs_names[3]>>

\* C6 as stated: the push run always terminates.
C6_Terminates == <>Ended

\* C6 amended: the push run terminates unless a job is created again with a
\* conflicting type again and again for ever; and when the batch loop has
\* ended, the queue of remaining jobs is empty or the last type conflict was
\* declined.
C6_TerminatesUnlessRecreatedForever ==
    /\ ([]<><<ExternalRecreate>>_vars) \/ <>Ended
    /\ [](pc \in {"report", "done"} => (remaining_jobs = <<>> \/ declined))

C6_Witness ==
    /\ pc = "done"
    /\ remaining_jobs = <<>>
    /\ last_call.op = "push"
    /\ last_call.prev_op = "delete"

\* C7: once the run has reported, the reported pushed set and the reported
\* not-pushed set are disjoint and their union is the set of requested names.
C7_ReportIsPartition ==
    pc = "done" =>
        /\ pushed_jobs \cap Range(not_pushed_jobs) = {}
        /\ pushed_jobs \cup Range(not_pushed_jobs) = Range(jobs_names)

C7_Witness ==
    /\ pc = "done"
    /\ pushed_jobs # {}
    /\ not_pushed_jobs # <<>>

\* C10: every document sent with push_job_config satisfies the fingerprint
\* invariant: its embedded hash is the hash of the document without it.
C10_PushedConfFingerprint ==
    last_call.op = "push" => FingerprintOk(last_call.sent)

(***************************************************************************)
(* Claims about the push flag and the disabled flag                        *)
(***************************************************************************)
\* C16: when pushes are forbidden and --force is not given, the push command
\* ends at the flag check: no get_job_config, push_job_config or delete_job
\* call is made and no build is triggered. The command ends there in that
\* case only: with --force it goes on like a command that is not forbidden.
C16_ForbiddenPushEndsBeforeAnyCall ==
    /\ (forbid_push /\ ~force) =>
          /\ pc \in {"flag", "forbidden"}
          /\ observed = <<>>
          /\ last_fetch = NoFetch
          /\ last_call = NoCall
          /\ built = <<>>
    /\ pc = "forbidden" => (forbid_push /\ ~force)

C16_Witness ==
    /\ pc = "forbidden"
    /\ forbid_push
    /\ ~force
    /\ trigger_builds

\* The steps of pushed_steps that make the pushed document
DocumentSteps ==
    SelectSeq(pushed_steps, LAMBDA step : step # "get_job_config")

\* C18: with the disabled-flag policy on, the steps taken for a job that
\* exists on the server are, in this order: render, merge the pipeline
\* information, copy the disabled flag, embed the hash, push; the embedded
\* hash is then the hash of the document that carries the copied flag.
C18_FlagCopiedBeforeHash ==
    (disable_jobs_from_gui /\ "copy_disabled" \in Range(pushed_steps)) =>
        /\ DocumentSteps = <<"render", "merge_pipeline", "copy_disabled",
                             "embed_hash", "push_job_config">>
        /\ last_call.sent.hash =
               get_conf_hash(extract_hash_from_description(last_call.sent)[2])

\* The document _push_jobs makes of the rendered one and of what
\* get_job_config answered
Expected(job_name, server_conf) ==
    IF server_conf = NoJob THEN render_job(job_name)
    ELSE [render_job(job_name) EXCEPT !.disabled = server_conf.disabled]

\* C19: with the policy on, the document pushed for a job get_job_config
\* found is the rendered document with the disabled flag of the fetched one,
\* and for a job it did not find it is the rendered document, pushed all the
\* same and counted as pushed when the push succeeds. With the policy off
\* _push_jobs never calls get_job_config and pushes the rendered document.
C19_DisabledFlagFromRemote ==
    /\ ~disable_jobs_from_gui =>
          /\ last_fetch = NoFetch
          /\ pc = "pushcall" => final_conf = render_job(batch[batch_idx])
          /\ last_call.op = "push" => last_call.sent = render_job(last_call.job)
    /\ disable_jobs_from_gui =>
          /\ pc = "pushcall" =>
                /\ last_fetch.pos = Pos
                /\ final_conf = Expected(batch[batch_idx], last_fetch.conf)
          /\ (last_call.op = "push" /\ last_fetch.pos = last_call.pos) =>
                last_call.sent = Expected(last_call.job, last_fetch.conf)
          /\ (last_call.op = "push" /\ last_fetch.pos # last_call.pos) =>
                last_fetch.pos = last_call.pos + 1
    /\ (last_call.op = "push" /\ last_call.result = "ok") =>
          last_call.pos \in pushed_pos

C19_Witness ==
    /\ disable_jobs_from_gui
    /\ last_call.op = "push"
    /\ last_call.result = "ok"
    /\ last_fetch.pos = last_call.pos
    /\ last_fetch.conf # NoJob
    /\ last_fetch.conf.disabled
    /\ last_call.sent.disabled
    /\ pushed_pos = {1, 2}
    /\ observed = <<"absent", "clean">>

(***************************************************************************)
(* Claims about the build run                                              *)
(***************************************************************************)
\* C11: a job whose queue item is answered with a 404 is taken out of the
\* queue working set and printed with "unknown status", and only such a job
\* is; it is in neither the builds nor the results nor the printed results;
\* the 404 does not end the run with an error; and every other job gets its
\* build and, once wait_for_builds has returned, its result.
C11_QueueItemNotFoundIsUnknown ==
    /\ unknown = not_found
    /\ \A name \in not_found :
          /\ name \notin DOMAIN queue_urls
          /\ name \notin DOMAIN ret_builds
          /\ name \notin DOMAIN builds_urls
          /\ name \notin DOMAIN results
          /\ name \notin Range(presented)
    /\ bpc = "error" => failed # NoFailure
    /\ bpc \in {"poll", "present", "exit"} =>
          DOMAIN ret_builds = Range(build_jobs) \ not_found
    /\ bpc \in {"present", "exit"} =>
          DOMAIN results = Range(build_jobs) \ not_found

C11_Witness ==
    /\ bpc = "exit"
    /\ not_found = {"b"}
    /\ build_jobs = <<"b", "a">>
    /\ DOMAIN results = {"a"}
    /\ presented = <<"a">>

\* The jobs of names that have a result, each once, in the order of names
RECURSIVE InOrder(_, _)
InOrder(names, seen) ==
    IF names = <<>> THEN <<>>
    ELSE IF Head(names) \in seen \/ Head(names) \notin DOMAIN results
         THEN InOrder(Tail(names), seen)
         ELSE <<Head(names)>> \o InOrder(Tail(names), seen \cup {Head(names)})

\* C12: the results of a blocking build run are printed in the order of the
\* command line.
C12_ResultsInRequestedOrder ==
    bpc = "exit" => presented = InOrder(build_jobs, {})

\* C15: once a remote call of the build run was answered with an error other
\* than a queue item's 404, the run has ended with that error: the job is
\* neither printed as unknown nor given a result, no result is printed, and
\* no later step polls, records or prints anything.
C15_RemoteFailureEndsRun ==
    /\ [](failed # NoFailure =>
             /\ bpc = "error"
             /\ failed.job \notin unknown
             /\ failed.job \notin DOMAIN results
             /\ presented = <<>>)
    /\ [][failed # NoFailure => UNCHANGED bvars]_vars

C15_Witness ==
    /\ bpc = "error"
    /\ failed = [phase |-> "queue", job |-> "b"]
    /\ DOMAIN ret_builds = {"a"}
    /\ build_jobs = <<"a", "b">>

\* C20: _poll_builds assigns the result of a job once, and only a result that
\* is not null, with the build location _get_builds_urls returned; that
\* location is the one the queue item reported; a job leaves the build
\* working set only with its result; a recorded result is never changed and
\* never removed.
C20_ResultRecordedOnce ==
    /\ [](/\ \A name \in JobNames :
                recorded[name] = IF name \in DOMAIN results THEN 1 ELSE 0
          /\ \A name \in DOMAIN results :
                /\ results[name].result \in BuildResults
                /\ results[name].result = build_result[name]
                /\ results[name].build_url = ret_builds[name]
          /\ \A name \in DOMAIN ret_builds :
                executable[name] # NoUrl /\ ret_builds[name] = executable[name]
          /\ bpc = "poll" =>
                /\ DOMAIN builds_urls \cup DOMAIN results = DOMAIN ret_builds
                /\ DOMAIN builds_urls \cap DOMAIN results = {})
    /\ [][/\ \A name \in DOMAIN results :
                name \in DOMAIN results' /\ results'[name] = results[name]
          /\ \A name \in DOMAIN builds_urls \ DOMAIN builds_urls' :
                name \in DOMAIN results']_vars

C20_Witness ==
    /\ bpc = "poll"
    /\ todo = {}
    /\ DOMAIN results = {"a"}
    /\ DOMAIN builds_urls = {"b"}
    /\ build_result["b"] = Null

(***************************************************************************)
(* Claims about print_build_result                                         *)
(***************************************************************************)
\* The result and the runs print_build_result works with
Resolved == IF pr_result = Null THEN pr_build.result ELSE pr_result
RunsSeen == IF pr_runs_urls.given THEN pr_runs_urls.urls ELSE pr_build.runs

\* The line of a run, nested under its parent
RunLine(run) ==
    IF run.result = Null THEN Line("in_progress", "    ", run.name, Null)
    ELSE Line("result", "    ", run.name, run.result)

\* The line of a run, and its log when the log is wanted
RunLines(run) ==
    <<RunLine(run)>>
    \o (IF run.result # Null
           /\ (~only_log_failures \/ run.result # "SUCCESS")
        THEN <<Line("log", "", run.name, run.result)>> ELSE <<>>)

StatusLines == SelectSeq(printed, LAMBDA line : line.kind # "log")

\* C13 as stated: for a build with a result and with sub-runs,
\* print_build_result prints the result of the build and then the line of
\* each sub-run nested under it, whatever the result and whether verbose
\* output was asked for or not; the only thing left out for a success without
\* verbose output is the log.
C13_SubRunsAlwaysReported ==
    (prpc = "printed" /\ Resolved # Null /\ RunsSeen # <<>>) =>
        /\ StatusLines = <<Line("result", "", pr_build.name, Resolved)>>
               \o [i \in 1..Len(RunsSeen) |-> RunLine(RunsSeen[i])]
        /\ \A i \in 1..Len(printed) :
              printed[i].kind = "log" =>
                  (~only_log_failures \/ printed[i].result # "SUCCESS")

\* C13 amended: for a build with a result and with sub-runs,
\* print_build_result prints the result of the build; when that result is
\* not SUCCESS or verbose output was asked for, it then prints each sub-run
\* nested under it, with its log unless the sub-run succeeded and verbose
\* output was not asked for; otherwise it prints nothing more. The log of the
\* build itself is not printed.
C13_SubRunsReportedWithFailures ==
    (prpc = "printed" /\ Resolved # Null /\ RunsSeen # <<>>) =>
        printed = <<Line("result", "", pr_build.name, Resolved)>>
            \o (IF ~only_log_failures \/ Resolved # "SUCCESS"
                THEN Flatten([i \in 1..Len(RunsSeen) |-> RunLines(RunsSeen[i])])
                ELSE <<>>)

C13_Witness ==
    /\ prpc = "printed"
    /\ only_log_failures
    /\ Resolved = "FAILURE"
    /\ Len(RunsSeen) = 2
    /\ RunsSeen[1].result = "SUCCESS"
    /\ RunsSeen[2].result = "FAILURE"
    /\ Len(printed) = 4

\* C14 as stated: a build whose result is null and whose build information
\* lists two sub-runs is printed as in progress, followed by the line of
\* each of the two sub-runs nested under it.
C14_InProgressWithSubRuns ==
    (prpc = "printed" /\ Resolved = Null /\ Len(RunsSeen) = 2) =>
        StatusLines = <<Line("in_progress", "", pr_build.name, Null),
                        RunLine(RunsSeen[1]), RunLine(RunsSeen[2])>>

\* C14 amended: a build whose result is null is printed as in progress and
\* nothing else is printed, whatever sub-runs its build information lists.
C14_InProgressOnly ==
    (prpc = "printed" /\ Resolved = Null) =>
        printed = <<Line("in_progress", "", pr_build.name, Null)>>

C14_Witness ==
    /\ prpc = "printed"
    /\ Resolved = Null
    /\ Len(RunsSeen) = 2
    /\ RunsSeen[1].result = "SUCCESS"
    /\ Len(printed) = 1

(***************************************************************************)
(* Claims about deep_merge                                                 *)
(***************************************************************************)
Missing == [kind |-> "missing"]

\* The value at path in dct, or Missing
RECURSIVE GetPath(_, _)
GetPath(dct, path) ==
    IF path = <<>> THEN dct
    ELSE IF IsMapping(dct) /\ Head(path) \in DOMAIN dct.items
         THEN GetPath(dct.items[Head(path)], Tail(path))
         ELSE Missing

IsPrefix(p, q) == Len(p) <= Len(q) /\ SubSeq(q, 1, Len(p)) = p

\* One of the two paths runs through the other
Conflicts(p, q) == IsPrefix(p, q) \/ IsPrefix(q, p)

\* C17: deep_merge(a, b) returns a dict in which every leaf path of b holds
\* the value of b, also where a holds a scalar and b a dict or the reverse,
\* every leaf path of a that does not run through a leaf path of b or the
\* reverse holds the value of a, and every leaf comes from a or from b; with
\* inplace=False, a and b are after the call what they were before.
C17_DeepMerge ==
    mpc = "merged" =>
        /\ merged.ok
        /\ \A item \in flatten_dict(dct_b) :
              GetPath(merged.dct, item[1]) = item[2]
        /\ \A item \in flatten_dict(dct_a) :
              (\A other \in flatten_dict(dct_b) : ~Conflicts(item[1], other[1]))
              => GetPath(merged.dct, item[1]) = item[2]
        /\ flatten_dict(merged.dct) \subseteq
               flatten_dict(dct_a) \cup flatten_dict(dct_b)
        /\ ~inplace => (a_after = dct_a /\ b_after = dct_b)

(***************************************************************************)
(* extract_pipeline_conf and the rest of the document                      *)
(***************************************************************************)
\* The elements of a document in document order, each with its depth, its
\* tag, its text and whether it is an upstream trigger or lies inside one.
\* The sequence determines the document.
RECURSIVE Outline(_, _, _)
Outline(e, depth, inside) ==
    LET in_rbt == inside \/ e.tag = RBT IN
    <<[depth |-> depth, tag |-> e.tag, text |-> e.text, in_rbt |-> in_rbt]>>
    \o Flatten([i \in 1..Len(e.children) |-> Outline(e.children[i], depth + 1, in_rbt)])

HasUpstreamTrigger(doc) == \E i \in DOMAIN Outline(doc, 0, FALSE) : Outline(doc, 0, FALSE)[i].in_rbt

\* C22: extract_pipeline_conf applied to a document with no upstream trigger
\* returns no pipeline info and the document it was given; applied to a
\* document with an upstream trigger it returns pipeline info and the
\* document without the trigger: every other element is still there, at its
\* depth and in its order, and no upstream trigger is left.
C22_ExtractRemovesOnlyTheTrigger ==
    ppc = "pruned" =>
        /\ pextracted.ok
        /\ ~HasUpstreamTrigger(pconf) =>
              /\ pextracted.pipe_bits = NoPipe
              /\ pextracted.pruned_conf = pconf
        /\ HasUpstreamTrigger(pconf) =>
              /\ pextracted.pipe_bits # NoPipe
              /\ ~HasUpstreamTrigger(pextracted.pruned_conf)
              /\ Outline(pextracted.pruned_conf, 0, FALSE)
                   = SelectSeq(Outline(pconf, 0, FALSE), LAMBDA x : ~x.in_rbt)

\* A trigger with a sibling before it and a sibling after it was extracted
C22_Witness ==
    /\ ppc = "pruned"
    /\ pextracted.ok
    /\ pextracted.pipe_bits # NoPipe
    /\ \E i \in 2..(Len(Outline(pconf, 0, FALSE)) - 1) :
          /\ Outline(pconf, 0, FALSE)[i].tag = RBT
          /\ ~Outline(pconf, 0, FALSE)[i - 1].in_rbt
          /\ Outline(pconf, 0, FALSE)[i - 1].depth >= Outline(pconf, 0, FALSE)[i].depth
          /\ \E k \in (i + 1)..Len(Outline(pconf, 0, FALSE)) :
                /\ ~Outline(pconf, 0, FALSE)[k].in_rbt
                /\ Outline(pconf, 0, FALSE)[k].depth = Outline(pconf, 0, FALSE)[i].depth

(***************************************************************************)
(* build --block: the exit status                                          *)
(***************************************************************************)
\* C26: the blocking build command exits with status 0 exactly when every
\* build of the results has the result SUCCESS; it exits with another status
\* when a build of the results is UNSTABLE or FAILURE.
C26_ExitStatusTellsSuccess ==
    bpc = "exit" =>
        /\ exit_code = 0 <=> \A name \in DOMAIN results : results[name].result = "SUCCESS"
        /\ (\E name \in DOMAIN results : results[name].result \in {"UNSTABLE", "FAILURE"})
           => exit_code # 0

(***************************************************************************)
(* wait_for_builds: where a triggered job is                               *)
(***************************************************************************)
Waiting == bpc \in {"queue", "poll"}

\* The dict the running loop works on: ret of _get_builds_urls until it
\* returns, then the copy _poll_builds makes of it
BuildWorkingSet == IF bpc = "queue" THEN DOMAIN ret_builds ELSE DOMAIN builds_urls

Places(job_name) ==
    (IF job_name \in DOMAIN queue_urls THEN {"queue"} ELSE {})
    \cup (IF job_name \in BuildWorkingSet THEN {"build"} ELSE {})
    \cup (IF job_name \in DOMAIN results THEN {"results"} ELSE {})
    \cup (IF job_name \in unknown THEN {"unknown"} ELSE {})

Forward == {<<"queue", "build">>, <<"queue", "unknown">>, <<"build", "results">>}

\* C27: between two iterations of the loops of wait_for_builds and when it
\* has returned, every triggered job is in exactly one of the queue working
\* set, the build working set, the results and the jobs reported unknown; a
\* step of wait_for_builds leaves a job where it is or moves it from the queue
\* to the builds or to the unknown jobs, or from the builds to the results;
\* when wait_for_builds has returned, every triggered job is in the results
\* or reported unknown.
C27_JobsMoveForward ==
    /\ [](Waiting \/ bpc = "present" =>
            \A job_name \in Range(build_jobs) : Cardinality(Places(job_name)) = 1)
    /\ [](bpc = "present" =>
            /\ DOMAIN results \cup unknown = Range(build_jobs)
            /\ DOMAIN results \cap unknown = {})
    /\ [][Waiting =>
            \A job_name \in Range(build_jobs) : \A from \in Places(job_name) :
               \A to \in Places(job_name)' : from = to \/ <<from, to>> \in Forward]_vars

\* wait_for_builds has returned with one job in the results and another one
\* reported unknown
C27_Witness ==
    /\ bpc = "present"
    /\ DOMAIN results # {}
    /\ unknown # {}

(***************************************************************************)
(* push: the report and the pushes made                                    *)
(***************************************************************************)
\* The names of the jobs a push_job_config call succeeded for
SuccessfullyPushed == {jobs_names[i] : i \in pushed_pos}

\* C23: at the end of a push run the jobs reported pushed are the jobs a
\* push_job_config call succeeded for in the run, and no job reported not
\* pushed had a successful push_job_config call, whatever the requested list,
\* also when it names a job more than once.
C23_ReportMatchesPushes ==
    pc = "done" =>
        /\ pushed_jobs = SuccessfullyPushed
        /\ Range(not_pushed_jobs) \cap SuccessfullyPushed = {}

\* C25: when push is run with the build option, a build is triggered only
\* for jobs that were successfully pushed in the run; none is triggered for a
\* job left not pushed after a declined type conflict.
C25_BuildsOnlyForPushedJobs ==
    (pc = "done" /\ trigger_builds) =>
        /\ Range(built) \subseteq SuccessfullyPushed
        /\ declined => Range(built) \cap Range(not_pushed_jobs) = {}

(***************************************************************************)
(* push: when delete_job is called                                         *)
(***************************************************************************)
DeleteCalled == last_call' # last_call /\ last_call'.op = "delete"

\* C24: delete_job is called only for the job of the push_job_config call
\* made just before it, that call having been rejected with a type mismatch
\* and the replacement having been accepted, by the prompt or without one
\* when confirmation is disabled; the entry of the list it is called for has
\* not been pushed successfully, it is the entry the rejected call was made
\* for, and once a replacement has been declined no call is made at all.
C24_DeleteOnlyAfterAcceptedMismatch ==
    /\ [][DeleteCalled =>
            /\ last_call.op = "push"
            /\ last_call.result = "mismatch"
            /\ last_call'.job = last_call.job
            /\ last_call'.pos = last_call.pos
            /\ last_call'.pos \notin pushed_pos
            /\ mismatch_info.job_name = last_call.job
            /\ ~declined /\ ~declined']_vars
    /\ [][declined => last_call' = last_call]_vars

\* delete_job was called for the second job of the list after the prompt was
\* answered yes
C24_Witness ==
    /\ last_call.op = "delete"
    /\ last_call.pos = 2
    /\ confirm_replace
    /\ pushed_pos = {1}

(***************************************************************************)
(* wait_for_builds: termination                                            *)
(***************************************************************************)
Returned == bpc \in {"present", "exit"}

\* The queue item of the job is still waiting, or the build wait_for_builds
\* follows for the job has no result yet
Unresolved(job_name) ==
    \/ qstate[job_name] = "waiting"
    \/ job_name \in DOMAIN ret_builds /\ build_result[job_name] = Null

\* C21: when every queue item ends up with a build location or not found and
\* every build ends up with a result, wait_for_builds returns, unless a
\* remote call fails; it leaves its first loop only with an empty queue
\* working set and returns only with both working sets empty; as long as the
\* queue item of a triggered job is waiting or its build has no result
\* wait_for_builds has not returned, so that it never returns when one of
\* them stays so for ever.
C21_WaitEndsWhenAllResolved ==
    /\ (bpc = "queue") ~> (Returned \/ failed # NoFailure)
    /\ [](bpc \in {"poll", "present", "exit"} => DOMAIN queue_urls = {})
    /\ [](Returned => DOMAIN builds_urls = {})
    /\ [](\A job_name \in Range(build_jobs) :
             (block /\ bpc # "trigger" /\ Unresolved(job_name)) => ~Returned)

\* wait_for_builds has returned with the result of every triggered job
C21_Witness ==
    /\ bpc = "present"
    /\ \E job_name \in DOMAIN results : recorded[job_name] = 1
    /\ DOMAIN results = Range(build_jobs)
    /\ Len(build_jobs) > 1

====
